---- MODULE Spec2Model ----
(***************************************************************************)
(* The upload orchestrator of su_service (src/su_service/src/index.ts): a  *)
(* fetch handler that validates an inbound request and then runs the       *)
(* three-step saga message-creation, link-creation, file-upload.           *)
(*                                                                         *)
(* Texts.  A text is a sequence of strings whose concatenation is the      *)
(* text.  Texts the code only passes along are one chunk (<<"Basic">>);    *)
(* texts the code searches, splits or encodes are written character by     *)
(* character (<<"/","f","/","a">>).                                        *)
(***************************************************************************)
EXTENDS Integers, Sequences, FiniteSets

VARIABLES
    req,              \* req[r]: the inbound Request of invocation r
    pc,               \* pc[r]: where invocation r stands
    name,             \* name[r]: createFile's `name` after encodeURIComponent
    expireAfter,      \* expireAfter[r]: createFile's fifth argument
    calls,            \* calls[r]: the backend calls issued so far, in order
    returns,          \* returns[r]: what each issued call produced, in order
    messageResponse,  \* messageResponse[r]: parsed JSON of the message call
    linkResponse,     \* linkResponse[r]: parsed JSON of the link call
    responseData,     \* responseData[r]: parsed JSON of the file call
    response,         \* response[r]: the Response handleRequest resolved with
    error,            \* error[r]: the error handleRequest rejected with
    fetched,          \* fetched[r]: the Response the latest fetch resolved with
    bodyReads         \* bodyReads[r]: how often the inbound body stream was consumed

vars == <<req, pc, name, expireAfter, calls, returns, messageResponse,
          linkResponse, responseData, response, error, fetched, bodyReads>>

-----------------------------------------------------------------------------
(* Program constants *)

AUTHORIZATION_KEY == "Authorization"
CONTENT_TYPE_KEY == "Content-Type"
JSON_TYPE == <<"application/json">>
RESPONSE_SOURCE_KEY == "Response-Source"
LOCATION_KEY == "Location"
WWW_AUTHENTICATE_KEY == "WWW-Authenticate"
LINK_TOKEN == <<"{", "l", "i", "n", "k", "_", "t", "o", "k", "e", "n", "}">>

MESSAGE_SERVICE == "message-service"
AUTH_SERVICE == "auth-service"
FILE_SERVICE == "file-service"
Services == {MESSAGE_SERVICE, AUTH_SERVICE, FILE_SERVICE}

-----------------------------------------------------------------------------
(* Bounds of the model *)

NumRequests == 2        \* invocations of the handler the model has room for
MaxPlaceholders == 2    \* occurrences of {link_token} in a shareable_link

Requests == 1..NumRequests

-----------------------------------------------------------------------------
(* Nullable strings: the result of Headers.get and URLSearchParams.get *)

Null == [isNull |-> TRUE, v |-> <<>>]
Str(s) == [isNull |-> FALSE, v |-> s]

\* JavaScript's !x for a value of type string | null
Falsy(x) == x.isNull \/ x.v = <<>> \/ x.v = <<"">>

-----------------------------------------------------------------------------
(* Headers and URLSearchParams: sets of <<name, value>> with unique names *)

HasEntry(h, key) == \E p \in h : p[1] = key

\* Headers.get / URLSearchParams.get: the value, or null when absent
GetEntry(h, key) ==
    IF HasEntry(h, key) THEN Str((CHOOSE p \in h : p[1] = key)[2]) ELSE Null

\* Headers.set: replaces every value the name had
SetEntry(h, key, value) == {p \in h : p[1] # key} \cup {<<key, value>>}

-----------------------------------------------------------------------------
(* Bodies.  A body is what travels on the wire:                            *)
(*   kind "null"    no body                                                *)
(*   kind "text"    text that is not JSON                                  *)
(*   kind "stream"  the inbound request's ReadableStream                   *)
(*   kind "jnull"   the JSON text null                                     *)
(*   kind "object"  a JSON object text: its members in wire order, and     *)
(*                  whether it carries insignificant white space           *)

NullBody == [kind |-> "null", text |-> "", ws |-> FALSE, members |-> <<>>]
TextBody(t) == [kind |-> "text", text |-> t, ws |-> FALSE, members |-> <<>>]
StreamBody == [kind |-> "stream", text |-> "", ws |-> FALSE, members |-> <<>>]
JsonNullBody == [kind |-> "jnull", text |-> "", ws |-> FALSE, members |-> <<>>]
ObjectBody(ms, w) == [kind |-> "object", text |-> "", ws |-> w, members |-> ms]

\* the default bodyInfo.body of request(): "{}"
EmptyObjectBody == ObjectBody(<<>>, FALSE)

-----------------------------------------------------------------------------
(* JavaScript values and JSON.                                             *)
(* A wire value (a JSON literal) and a JavaScript value are both           *)
(* [t |-> type, v |-> text]: a string's v is its characters, a number's    *)
(* v is <<spelling>>, null and undefined have v = <<>>.                    *)

JString(cs) == [t |-> "string", v |-> cs]
JNumber(lit) == [t |-> "number", v |-> <<lit>>]
JNull == [t |-> "null", v |-> <<>>]
Undefined == [t |-> "undefined", v |-> <<>>]

\* A parsed document: an object (its properties in property order) or null
ObjectDoc(ps) == [t |-> "object", props |-> ps]
NullDoc == [t |-> "null", props |-> <<>>]
NoDoc == [t |-> "none", props |-> <<>>]

\* Number(literal) printed back by Number::toString: the IEEE-754 double
\* nearest to the literal, in its shortest spelling
ToDouble(lit) ==
    CASE lit = "7" -> "7"
      [] lit = "1.0" -> "1"
      [] lit = "9007199254740993" -> "9007199254740992"
      [] lit = "1e400" -> "Infinity"
      [] OTHER -> lit

\* JSON.parse of one literal
ParseValue(l) == IF l.t = "number" THEN JNumber(ToDouble(l.v[1])) ELSE l

\* [[Set]] of a property while parsing: a repeated key overwrites the value
\* and keeps the position of its first occurrence
PutProp(ps, key, val) ==
    IF \E i \in 1..Len(ps) : ps[i].key = key
    THEN [i \in 1..Len(ps) |->
            IF ps[i].key = key THEN [key |-> key, val |-> val] ELSE ps[i]]
    ELSE Append(ps, [key |-> key, val |-> val])

RECURSIVE ParseMembers(_, _)
ParseMembers(ms, acc) ==
    IF ms = <<>> THEN acc
    ELSE ParseMembers(Tail(ms), PutProp(acc, Head(ms).key, ParseValue(Head(ms).val)))

\* Response.json(): rejects with a SyntaxError unless the body is JSON text
JsonOk(body) == body.kind \in {"object", "jnull"}
Json(body) ==
    IF body.kind = "object" THEN ObjectDoc(ParseMembers(body.members, <<>>))
    ELSE NullDoc

\* JSON.stringify of one value: a non-finite number is written as null
SerializeValue(val) ==
    IF val.t = "number" /\ val.v = <<"Infinity">> THEN JNull ELSE val

\* JSON.stringify(doc): no white space, one member per property
Stringify(doc) ==
    IF doc.t = "object"
    THEN ObjectBody([i \in 1..Len(doc.props) |->
                       [key |-> doc.props[i].key,
                        val |-> SerializeValue(doc.props[i].val)]], FALSE)
    ELSE JsonNullBody

\* doc.key for a non-null doc: the property's value, or undefined
GetProp(doc, key) ==
    IF \E i \in 1..Len(doc.props) : doc.props[i].key = key
    THEN doc.props[CHOOSE i \in 1..Len(doc.props) : doc.props[i].key = key].val
    ELSE Undefined

\* ToString, as applied by a template literal and by String.prototype.replace
ToString(val) ==
    CASE val.t = "undefined" -> <<"u", "n", "d", "e", "f", "i", "n", "e", "d">>
      [] val.t = "null" -> <<"n", "u", "l", "l">>
      [] OTHER -> val.v

-----------------------------------------------------------------------------
(* String operations *)

\* String.prototype.indexOf, 1-based; 0 when pat does not occur
IndexOf(s, pat) ==
    LET hits == {i \in 1..(Len(s) - Len(pat) + 1) :
                    SubSeq(s, i, i + Len(pat) - 1) = pat}
    IN IF hits = {} THEN 0 ELSE CHOOSE i \in hits : \A j \in hits : i <= j

\* GetSubstitution for a string pattern (no captures): $$ is a dollar sign,
\* $& the matched text, $` the text before the match, $' the text after it
RECURSIVE GetSubstitution(_, _, _, _)
GetSubstitution(matched, before, after, tpl) ==
    IF tpl = <<>> THEN <<>>
    ELSE IF Head(tpl) = "$" /\ Len(tpl) >= 2 /\ tpl[2] \in {"$", "&", "`", "'"}
    THEN (CASE tpl[2] = "$" -> <<"$">>
            [] tpl[2] = "&" -> matched
            [] tpl[2] = "`" -> before
            [] tpl[2] = "'" -> after)
         \o GetSubstitution(matched, before, after, SubSeq(tpl, 3, Len(tpl)))
    ELSE <<Head(tpl)>> \o GetSubstitution(matched, before, after, Tail(tpl))

\* String.prototype.replace(searchValue, replaceValue) with two strings:
\* only the first occurrence is replaced
Replace(s, searchValue, replaceValue) ==
    LET pos == IndexOf(s, searchValue) IN
    IF pos = 0 THEN s
    ELSE LET before == SubSeq(s, 1, pos - 1)
             after == SubSeq(s, pos + Len(searchValue), Len(s))
         IN before \o GetSubstitution(searchValue, before, after, replaceValue)
                   \o after

\* String.prototype.split("/")
RECURSIVE Split(_)
Split(s) ==
    LET pos == IndexOf(s, <<"/">>) IN
    IF pos = 0 THEN <<s>>
    ELSE <<SubSeq(s, 1, pos - 1)>> \o Split(SubSeq(s, pos + 1, Len(s)))

\* encodeURIComponent: every character but A-Z a-z 0-9 - _ . ! ~ * ' ( )
\* becomes the %XX of its UTF-8 bytes
EncodeChar(c) ==
    CASE c = "%" -> <<"%", "2", "5">>
      [] c = " " -> <<"%", "2", "0">>
      [] c = "#" -> <<"%", "2", "3">>
      [] c = "/" -> <<"%", "2", "F">>
      [] OTHER -> <<c>>

RECURSIVE encodeURIComponent(_)
encodeURIComponent(s) ==
    IF s = <<>> THEN <<>> ELSE EncodeChar(Head(s)) \o encodeURIComponent(Tail(s))

\* the Request constructor's method normalisation
NormalizeMethod(m) ==
    CASE m = "post" -> "POST"
      [] m = "put" -> "PUT"
      [] OTHER -> m

-----------------------------------------------------------------------------
(* Responses and backend calls *)

\* new Response(body, {status, statusText, headers})
Response(status, statusText, headers, body) ==
    [status |-> status, statusText |-> statusText, headers |-> headers,
     body |-> body]

\* response[r] while handleRequest has not resolved
NoResponse == Response(0, "", {}, NullBody)

\* `by=${serviceName}`
By(serviceName) == <<"by=", serviceName>>

\* IsFailure with only 4xx and 5xx taken as failures
IsFailure4xx(status) == status < 200 \/ status >= 400

\* request(): the failure test on the status
IsFailure(status) == status < 200 \/ status >= 300

\* MarkSource under the header name of the earlier revision
MarkSourceForwarded(headers, serviceName) ==
    SetEntry(headers, "Forwarded", By(serviceName))

\* request(): `${...} .set("Response-Source", ...)` on the copied headers
MarkSource(headers, serviceName) ==
    SetEntry(headers, RESPONSE_SOURCE_KEY, By(serviceName))

\* new Response(body, {status}): a status outside 200..599 is refused with
\* a RangeError
Constructible(status) == status >= 200 /\ status <= 599

\* FailureResponse with fresh headers instead of the copied ones
FailureResponseBare(resp, serviceName) ==
    Response(resp.status, resp.statusText, MarkSource({}, serviceName),
             resp.body)

\* request(): the Response thrown for a failed backend response
FailureResponse(resp, serviceName) ==
    Response(resp.status, resp.statusText,
             MarkSource(resp.headers, serviceName), resp.body)

\* BackendCall with a credential of the orchestrator's own in place of the
\* caller's
BackendCallOwnAuth(host, path, auth, serviceName, body, contentType, method) ==
    [serviceName |-> serviceName,
     host |-> host,
     path |-> path,
     method |-> NormalizeMethod(method),
     headers |-> {<<AUTHORIZATION_KEY, <<"Bearer su-service">>>>,
                  <<CONTENT_TYPE_KEY, contentType>>},
     body |-> body]

\* request(): the Request handed to fetch
BackendCall(host, path, auth, serviceName, body, contentType, method) ==
    [serviceName |-> serviceName,
     host |-> host,
     path |-> path,
     method |-> NormalizeMethod(method),
     headers |-> {<<AUTHORIZATION_KEY, auth>>, <<CONTENT_TYPE_KEY, contentType>>},
     body |-> body]

\* what a call produced: a response (its status is kept) or no response
Returned(serviceName, status) ==
    [serviceName |-> serviceName, kind |-> "response", status |-> status]
Threw(serviceName) ==
    [serviceName |-> serviceName, kind |-> "error", status |-> 0]

-----------------------------------------------------------------------------
(* handleRequest: validation *)

PathNames(rq) == Split(rq.pathname)
FileName(rq) == PathNames(rq)[Len(PathNames(rq))]

\* the Content-Type a Response built from a string body is given
TEXT_PLAIN == <<CONTENT_TYPE_KEY, <<"text/plain;charset=UTF-8">>>>

\* ValidationResponse with the Content-Type check ahead of the
\* Authorization check
ValidationResponseReordered(rq) ==
    IF Len(PathNames(rq)) # 3 \/ FileName(rq) = <<>>
    THEN Response(404, "", {}, NullBody)
    ELSE IF rq.method # "POST"
    THEN Response(405, "", {}, NullBody)
    ELSE IF Falsy(GetEntry(rq.headers, CONTENT_TYPE_KEY))
    THEN Response(400, "", {TEXT_PLAIN}, TextBody("Missing content type header"))
    ELSE IF Falsy(GetEntry(rq.headers, AUTHORIZATION_KEY))
    THEN Response(403, "", {<<WWW_AUTHENTICATE_KEY, <<"Basic">>>>, TEXT_PLAIN},
                  TextBody("Missing authorization header"))
    ELSE IF rq.body.kind = "null"
    THEN Response(400, "", {TEXT_PLAIN}, TextBody("Missing body"))
    ELSE NoResponse

\* ValidationResponse without the check of the body
ValidationResponseNoBodyCheck(rq) ==
    IF Len(PathNames(rq)) # 3 \/ FileName(rq) = <<>>
    THEN Response(404, "", {}, NullBody)
    ELSE IF rq.method # "POST"
    THEN Response(405, "", {}, NullBody)
    ELSE IF Falsy(GetEntry(rq.headers, AUTHORIZATION_KEY))
    THEN Response(403, "", {<<WWW_AUTHENTICATE_KEY, <<"Basic">>>>, TEXT_PLAIN},
                  TextBody("Missing authorization header"))
    ELSE IF Falsy(GetEntry(rq.headers, CONTENT_TYPE_KEY))
    THEN Response(400, "", {TEXT_PLAIN}, TextBody("Missing content type header"))
    ELSE NoResponse

\* handleRequest up to the call of createFile: the Response it returns
\* early, or NoResponse when every check passes
ValidationResponse(rq) ==
    IF Len(PathNames(rq)) # 3 \/ FileName(rq) = <<>>
    THEN Response(404, "", {}, NullBody)
    ELSE IF rq.method # "POST"
    THEN Response(405, "", {}, NullBody)
    ELSE IF Falsy(GetEntry(rq.headers, AUTHORIZATION_KEY))
    THEN Response(403, "", {<<WWW_AUTHENTICATE_KEY, <<"Basic">>>>, TEXT_PLAIN},
                  TextBody("Missing authorization header"))
    ELSE IF Falsy(GetEntry(rq.headers, CONTENT_TYPE_KEY))
    THEN Response(400, "", {TEXT_PLAIN}, TextBody("Missing content type header"))
    ELSE IF rq.body.kind = "null"
    THEN Response(400, "", {TEXT_PLAIN}, TextBody("Missing body"))
    ELSE NoResponse

-----------------------------------------------------------------------------
(* createFile: the three calls and the composed response *)

Auth(rq) == GetEntry(rq.headers, AUTHORIZATION_KEY).v
ContentType(rq) == GetEntry(rq.headers, CONTENT_TYPE_KEY).v

\* `${MESSAGE_SERVICE_HOSTNAME}/messages`, default body, "post"
MessageCall(auth) ==
    BackendCall("MESSAGE_SERVICE_HOSTNAME", <<<<"messages">>>>, auth,
                MESSAGE_SERVICE, EmptyObjectBody, JSON_TYPE, "post")

\* `${AUTH_SERVICE_HOSTNAME}/messages/${messageResponse.id}/links`
LinkCall(auth, msg) ==
    BackendCall("AUTH_SERVICE_HOSTNAME",
                <<<<"messages">>, ToString(GetProp(msg, "id")), <<"links">>>>,
                auth, AUTH_SERVICE, EmptyObjectBody, JSON_TYPE, "post")

\* FileCall with the Content-Type of the other two calls
FileCallJsonType(auth, msg, encodedName, data, contentType) ==
    BackendCall("FILE_SERVICE_HOSTNAME",
                <<<<"messages">>, ToString(GetProp(msg, "id")), <<"files">>,
                  encodedName>>,
                auth, FILE_SERVICE, data, JSON_TYPE, "put")

\* FileCall with the default body of request() instead of the inbound body
FileCallDefaultBody(auth, msg, encodedName, data, contentType) ==
    BackendCall("FILE_SERVICE_HOSTNAME",
                <<<<"messages">>, ToString(GetProp(msg, "id")), <<"files">>,
                  encodedName>>,
                auth, FILE_SERVICE, EmptyObjectBody, contentType, "put")

\* `${FILE_SERVICE_HOSTNAME}/messages/${messageResponse.id}/files/${name}`
FileCall(auth, msg, encodedName, data, contentType) ==
    BackendCall("FILE_SERVICE_HOSTNAME",
                <<<<"messages">>, ToString(GetProp(msg, "id")), <<"files">>,
                  encodedName>>,
                auth, FILE_SERVICE, data, contentType, "put")

\* location.replace("{link_token}", linkResponse.token)
Location(data, link) ==
    Replace(GetProp(data, "shareable_link").v, LINK_TOKEN,
            ToString(GetProp(link, "token")))

\* the statements after the third call throw a TypeError when responseData
\* is null, when shareable_link is not a string (no replace method), or
\* when linkResponse is null
ComposeThrows(data, link) ==
    \/ data.t = "null"
    \/ GetProp(data, "shareable_link").t # "string"
    \/ link.t = "null"

\* new Response(JSON.stringify(responseData), {status: 201, headers: ...})
ComposeResponse(data, link) ==
    Response(201, "",
             {<<CONTENT_TYPE_KEY, JSON_TYPE>>,
              <<LOCATION_KEY, Location(data, link)>>},
             Stringify(data))

-----------------------------------------------------------------------------
(* Inputs *)

Pathnames ==
    { <<"/", "f", "i", "l", "e", "s", "/", "a">>,
      <<"/", "x", "/", "a", "%", "2", "0", "b">>,
      <<"/", "f", "i", "l", "e", "s", "/">>,
      <<"/", "a", "/", "b", "/", "c">>,
      <<"/", "x">>,
      <<"/", "/", "a">> }

Methods == {"POST", "GET"}

AuthValues == {<<"Basic dTpw">>, <<"Bearer t0k">>}

InboundHeaders ==
    { a \cup c :
        a \in {{}, {<<AUTHORIZATION_KEY, <<"">>>>}}
                \cup {{<<AUTHORIZATION_KEY, v>>} : v \in AuthValues},
        c \in {{}, {<<CONTENT_TYPE_KEY, <<"">>>>},
                {<<CONTENT_TYPE_KEY, <<"text/plain">>>>}} }

Searches == {{}, {<<"file_name", <<"60">>>>}}

InboundRequests ==
    [method : Methods, pathname : Pathnames, search : Searches,
     headers : InboundHeaders, body : {NullBody, StreamBody}]

\* The request an idle invocation slot holds
IdleRequest ==
    [method |-> "GET", pathname |-> <<"/">>, search |-> {}, headers |-> {},
     body |-> NullBody]

\* statuses of the Response a fetch resolves with: the two ends of the 2xx
\* range, the first status after it, and a server error
Statuses == {200, 299, 300, 500}

StatusText(status) ==
    CASE status = 200 -> "OK"
      [] status = 300 -> "Multiple Choices"
      [] status = 500 -> "Internal Server Error"
      [] OTHER -> ""

BackendHeaders ==
    { {},
      {<<CONTENT_TYPE_KEY, JSON_TYPE>>},
      {<<CONTENT_TYPE_KEY, JSON_TYPE>>,
       <<RESPONSE_SOURCE_KEY, <<"by=", "upstream">>>>} }

Member(key, val) == [key |-> key, val |-> val]

MessageBodies ==
    { TextBody("oops"), JsonNullBody, EmptyObjectBody,
      ObjectBody(<<Member("id", JString(<<"m", "1">>))>>, FALSE),
      ObjectBody(<<Member("id", JString(<<"m", "2">>))>>, TRUE),
      ObjectBody(<<Member("id", JNumber("7"))>>, FALSE) }

\* link tokens of the saga: an ordinary one and two with a dollar sign
Tokens == {<<"t">>, <<"$", "&">>, <<"$", "$">>}

LinkBodies ==
    { TextBody("oops"), JsonNullBody, EmptyObjectBody }
    \cup {ObjectBody(<<Member("token", JString(t))>>, FALSE) : t \in Tokens}

\* shareable_link templates: "u" followed by k times "/{link_token}"
RECURSIVE Template(_)
Template(k) == IF k = 0 THEN <<"u">> ELSE Template(k - 1) \o <<"/">> \o LINK_TOKEN

Templates == {Template(k) : k \in 0..MaxPlaceholders}

FileBodies ==
    { TextBody("oops"), JsonNullBody, EmptyObjectBody,
      ObjectBody(<<Member("shareable_link", JNumber("7"))>>, FALSE) }
    \cup {ObjectBody(<<Member("shareable_link", JString(t))>>, FALSE) :
            t \in Templates}
    \cup {ObjectBody(<<Member("shareable_link", JString(<<"u">>)),
                       Member("size", JNumber(n))>>, w) :
            n \in {"7", "1.0", "9007199254740993", "1e400"}, w \in BOOLEAN}
    \cup {ObjectBody(<<Member("shareable_link", JString(<<"v">>)),
                       Member("shareable_link", JString(LINK_TOKEN))>>, FALSE)}

BackendResponses(bodies) ==
    { Response(st, StatusText(st), h, b) :
        st \in Statuses, h \in BackendHeaders, b \in bodies }

-----------------------------------------------------------------------------
(* The state machine of one invocation                                     *)
(*   Start -> Validated -> AwaitMessage -> MessageCreated -> AwaitLink     *)
(*         -> LinkCreated -> AwaitFile -> FileUploaded -> Completed        *)
(* with the exits Rejected (validation returned a Response), Failed (a     *)
(* thrown backend Response was caught and returned) and Errored            *)
(* (handleRequest rejected with an error that is no Response).             *)

Awaiting == {"AwaitMessage", "AwaitLink", "AwaitFile"}
Terminal == {"Rejected", "Completed", "Failed", "Errored"}

AwaitedService(p) ==
    CASE p = "AwaitMessage" -> MESSAGE_SERVICE
      [] p = "AwaitLink" -> AUTH_SERVICE
      [] p = "AwaitFile" -> FILE_SERVICE

\* fetch(): how often sending this Request reads the inbound body stream
Consumes(call) == IF call.body.kind = "stream" THEN 1 ELSE 0

Init ==
    /\ \E q \in InboundRequests :
           req = [r \in Requests |-> IF r = 1 THEN q ELSE IdleRequest]
    /\ pc = [r \in Requests |-> IF r = 1 THEN "Start" ELSE "Idle"]
    /\ name = [r \in Requests |-> <<>>]
    /\ expireAfter = [r \in Requests |-> Null]
    /\ calls = [r \in Requests |-> <<>>]
    /\ returns = [r \in Requests |-> <<>>]
    /\ messageResponse = [r \in Requests |-> NoDoc]
    /\ linkResponse = [r \in Requests |-> NoDoc]
    /\ responseData = [r \in Requests |-> NoDoc]
    /\ response = [r \in Requests |-> NoResponse]
    /\ error = [r \in Requests |-> "none"]
    /\ fetched = [r \in Requests |-> NoResponse]
    /\ bodyReads = [r \in Requests |-> 0]

\* handleRequest: the checks before createFile
Validate(r) ==
    /\ pc[r] = "Start"
    /\ IF ValidationResponse(req[r]) # NoResponse
       THEN /\ pc' = [pc EXCEPT ![r] = "Rejected"]
            /\ response' = [response EXCEPT ![r] = ValidationResponse(req[r])]
            /\ UNCHANGED expireAfter
       ELSE /\ pc' = [pc EXCEPT ![r] = "Validated"]
            /\ expireAfter' =
                 [expireAfter EXCEPT ![r] = GetEntry(req[r].search, "file_name")]
            /\ UNCHANGED response
    /\ UNCHANGED <<req, name, calls, returns, messageResponse, linkResponse,
                   responseData, error, fetched, bodyReads>>

\* CallMessage with expireAfter sent to the message backend
CallMessageWithExpiry(r) ==
    /\ pc[r] = "Validated"
    /\ name' = [name EXCEPT ![r] = encodeURIComponent(FileName(req[r]))]
    /\ calls' = [calls EXCEPT ![r] =
           Append(@, [MessageCall(Auth(req[r])) EXCEPT
                         !.body = IF expireAfter[r].isNull THEN @
                                  ELSE ObjectBody(<<Member("expire_after",
                                           JString(expireAfter[r].v))>>, FALSE)])]
    /\ pc' = [pc EXCEPT ![r] = "AwaitMessage"]
    /\ UNCHANGED <<req, expireAfter, returns, messageResponse, linkResponse,
                   responseData, response, error, fetched, bodyReads>>

\* createFile: encode the name and issue the message-creation call
CallMessage(r) ==
    /\ pc[r] = "Validated"
    /\ name' = [name EXCEPT ![r] = encodeURIComponent(FileName(req[r]))]
    /\ calls' = [calls EXCEPT ![r] = Append(@, MessageCall(Auth(req[r])))]
    /\ bodyReads' = [bodyReads EXCEPT ![r] = @ + Consumes(MessageCall(Auth(req[r])))]
    /\ pc' = [pc EXCEPT ![r] = "AwaitMessage"]
    /\ UNCHANGED <<req, expireAfter, returns, messageResponse, linkResponse,
                   responseData, response, error, fetched>>

\* Thrown with a failed call sent again instead of forwarded
ThrownRetry(r, resp, serviceName) ==
    IF IsFailure(resp.status)
    THEN /\ pc' = [pc EXCEPT ![r] =
                     CASE serviceName = MESSAGE_SERVICE -> "Validated"
                       [] serviceName = AUTH_SERVICE -> "MessageCreated"
                       [] OTHER -> "LinkCreated"]
         /\ UNCHANGED <<response, error>>
    ELSE /\ pc' = [pc EXCEPT ![r] = "Errored"]
         /\ error' = [error EXCEPT ![r] = "SyntaxError"]
         /\ UNCHANGED response

\* Thrown with the id of the created message added to a forwarded failure
ThrownLeak(r, resp, serviceName) ==
    IF IsFailure(resp.status)
    THEN /\ pc' = [pc EXCEPT ![r] = "Failed"]
         /\ response' = [response EXCEPT ![r] =
                [FailureResponse(resp, serviceName) EXCEPT
                    !.headers = @ \cup {<<"X-Message-Id",
                                         ToString(GetProp(messageResponse[r], "id"))>>}]]
         /\ UNCHANGED error
    ELSE /\ pc' = [pc EXCEPT ![r] = "Errored"]
         /\ error' = [error EXCEPT ![r] = "SyntaxError"]
         /\ UNCHANGED response

\* request() after fetch resolved with resp, and the catch of handleRequest:
\* what becomes of pc, response and error when the call is not a success:
\* the failure Response is thrown and returned, or building it throws a
\* RangeError, or response.json() throws a SyntaxError
Thrown(r, resp, serviceName) ==
    IF IsFailure(resp.status) /\ Constructible(resp.status)
    THEN /\ pc' = [pc EXCEPT ![r] = "Failed"]
         /\ response' = [response EXCEPT ![r] = FailureResponse(resp, serviceName)]
         /\ UNCHANGED error
    ELSE /\ pc' = [pc EXCEPT ![r] = "Errored"]
         /\ error' = [error EXCEPT ![r] =
                IF IsFailure(resp.status) THEN "RangeError" ELSE "SyntaxError"]
         /\ UNCHANGED response

\* Succeeds without the status test
SucceedsUnchecked(resp) == JsonOk(resp.body)

Succeeds(resp) == ~IsFailure(resp.status) /\ JsonOk(resp.body)

\* the message-creation call returns resp
MessageReturn(r, resp) ==
    /\ pc[r] = "AwaitMessage"
    /\ fetched' = [fetched EXCEPT ![r] = resp]
    /\ returns' = [returns EXCEPT ![r] = Append(@, Returned(MESSAGE_SERVICE, resp.status))]
    /\ IF Succeeds(resp)
       THEN /\ messageResponse' = [messageResponse EXCEPT ![r] = Json(resp.body)]
            /\ pc' = [pc EXCEPT ![r] = "MessageCreated"]
            /\ UNCHANGED <<response, error>>
       ELSE /\ Thrown(r, resp, MESSAGE_SERVICE)
            /\ UNCHANGED messageResponse
    /\ UNCHANGED <<req, name, expireAfter, calls, linkResponse, responseData,
                   bodyReads>>

\* CallLink with messageResponse kept in one variable of the module, shared
\* by all invocations, instead of a local of createFile
CallLinkShared(r) ==
    /\ pc[r] = "MessageCreated"
    /\ IF messageResponse[1].t = "null"
       THEN /\ pc' = [pc EXCEPT ![r] = "Errored"]
            /\ error' = [error EXCEPT ![r] = "TypeError"]
            /\ UNCHANGED <<calls, bodyReads>>
       ELSE /\ calls' = [calls EXCEPT ![r] =
                           Append(@, LinkCall(Auth(req[r]), messageResponse[1]))]
            /\ bodyReads' = [bodyReads EXCEPT ![r] =
                    @ + Consumes(LinkCall(Auth(req[r]), messageResponse[1]))]
            /\ pc' = [pc EXCEPT ![r] = "AwaitLink"]
            /\ UNCHANGED error
    /\ UNCHANGED <<req, name, expireAfter, returns, messageResponse,
                   linkResponse, responseData, response, fetched>>

\* createFile: issue the link-creation call; reading messageResponse.id
\* throws a TypeError when messageResponse is null
CallLink(r) ==
    /\ pc[r] = "MessageCreated"
    /\ IF messageResponse[r].t = "null"
       THEN /\ pc' = [pc EXCEPT ![r] = "Errored"]
            /\ error' = [error EXCEPT ![r] = "TypeError"]
            /\ UNCHANGED <<calls, bodyReads>>
       ELSE /\ calls' = [calls EXCEPT ![r] =
                           Append(@, LinkCall(Auth(req[r]), messageResponse[r]))]
            /\ bodyReads' = [bodyReads EXCEPT ![r] =
                    @ + Consumes(LinkCall(Auth(req[r]), messageResponse[r]))]
            /\ pc' = [pc EXCEPT ![r] = "AwaitLink"]
            /\ UNCHANGED error
    /\ UNCHANGED <<req, name, expireAfter, returns, messageResponse,
                   linkResponse, responseData, response, fetched>>

\* the link-creation call returns resp
LinkReturn(r, resp) ==
    /\ pc[r] = "AwaitLink"
    /\ fetched' = [fetched EXCEPT ![r] = resp]
    /\ returns' = [returns EXCEPT ![r] = Append(@, Returned(AUTH_SERVICE, resp.status))]
    /\ IF Succeeds(resp)
       THEN /\ linkResponse' = [linkResponse EXCEPT ![r] = Json(resp.body)]
            /\ pc' = [pc EXCEPT ![r] = "LinkCreated"]
            /\ UNCHANGED <<response, error>>
       ELSE /\ Thrown(r, resp, AUTH_SERVICE)
            /\ UNCHANGED linkResponse
    /\ UNCHANGED <<req, name, expireAfter, calls, messageResponse, responseData,
                   bodyReads>>

\* createFile: issue the file-upload call with the inbound body stream
CallFile(r) ==
    /\ pc[r] = "LinkCreated"
    /\ calls' = [calls EXCEPT ![r] =
                   Append(@, FileCall(Auth(req[r]), messageResponse[r], name[r],
                                      req[r].body, ContentType(req[r])))]
    /\ bodyReads' = [bodyReads EXCEPT ![r] =
            @ + Consumes(FileCall(Auth(req[r]), messageResponse[r], name[r],
                                  req[r].body, ContentType(req[r])))]
    /\ pc' = [pc EXCEPT ![r] = "AwaitFile"]
    /\ UNCHANGED <<req, name, expireAfter, returns, messageResponse,
                   linkResponse, responseData, response, error, fetched>>

\* the file-upload call returns resp
FileReturn(r, resp) ==
    /\ pc[r] = "AwaitFile"
    /\ fetched' = [fetched EXCEPT ![r] = resp]
    /\ returns' = [returns EXCEPT ![r] = Append(@, Returned(FILE_SERVICE, resp.status))]
    /\ IF Succeeds(resp)
       THEN /\ responseData' = [responseData EXCEPT ![r] = Json(resp.body)]
            /\ pc' = [pc EXCEPT ![r] = "FileUploaded"]
            /\ UNCHANGED <<response, error>>
       ELSE /\ Thrown(r, resp, FILE_SERVICE)
            /\ UNCHANGED responseData
    /\ UNCHANGED <<req, name, expireAfter, calls, messageResponse, linkResponse,
                   bodyReads>>

\* createFile: compose the 201 response
Compose(r) ==
    /\ pc[r] = "FileUploaded"
    /\ IF ComposeThrows(responseData[r], linkResponse[r])
       THEN /\ pc' = [pc EXCEPT ![r] = "Errored"]
            /\ error' = [error EXCEPT ![r] = "TypeError"]
            /\ UNCHANGED response
       ELSE /\ pc' = [pc EXCEPT ![r] = "Completed"]
            /\ response' = [response EXCEPT ![r] =
                              ComposeResponse(responseData[r], linkResponse[r])]
            /\ UNCHANGED error
    /\ UNCHANGED <<req, name, expireAfter, calls, returns, messageResponse,
                   linkResponse, responseData, fetched, bodyReads>>

\* TransportError with the error caught and answered as a failure of the
\* backend
TransportErrorAnswered(r) ==
    /\ pc[r] \in Awaiting
    /\ returns' = [returns EXCEPT ![r] = Append(@, Threw(AwaitedService(pc[r])))]
    /\ pc' = [pc EXCEPT ![r] = "Failed"]
    /\ response' = [response EXCEPT ![r] =
           Response(502, "", MarkSource({}, AwaitedService(pc[r])), NullBody)]
    /\ UNCHANGED <<req, name, expireAfter, calls, messageResponse, linkResponse,
                   responseData, error, fetched, bodyReads>>

\* fetch rejects: no HTTP response reached the orchestrator; the error is
\* no Response, so handleRequest rethrows it
TransportError(r) ==
    /\ pc[r] \in Awaiting
    /\ returns' = [returns EXCEPT ![r] = Append(@, Threw(AwaitedService(pc[r])))]
    /\ pc' = [pc EXCEPT ![r] = "Errored"]
    /\ error' = [error EXCEPT ![r] = "NetworkError"]
    /\ UNCHANGED <<req, name, expireAfter, calls, messageResponse, linkResponse,
                   responseData, response, fetched, bodyReads>>

Next ==
    \E r \in Requests :
        \/ Validate(r)
        \/ CallMessage(r)
        \/ \E resp \in BackendResponses(MessageBodies) : MessageReturn(r, resp)
        \/ CallLink(r)
        \/ \E resp \in BackendResponses(LinkBodies) : LinkReturn(r, resp)
        \/ CallFile(r)
        \/ \E resp \in BackendResponses(FileBodies) : FileReturn(r, resp)
        \/ Compose(r)
        \/ TransportError(r)

Spec == Init /\ [][Next]_vars

-----------------------------------------------------------------------------
(* One invocation whose backends answer with any three-digit status: the   *)
(* ends of the 2xx range, their neighbours, and the ends of the range of   *)
(* statuses a Response can be built with, and their neighbours. A status   *)
(* of 600 and more reaches request() from a backend that sends it; one     *)
(* below 200 only from a stubbed fetch.                                    *)

WideStatuses == {199, 200, 299, 300, 599, 600}

WideResponses(bodies) ==
    { Response(st, StatusText(st), {}, b) : st \in WideStatuses, b \in bodies }

WideMessageBodies ==
    {TextBody("oops"), ObjectBody(<<Member("id", JString(<<"m", "1">>))>>, TRUE)}

WideLinkBodies ==
    {TextBody("oops"), ObjectBody(<<Member("token", JString(<<"t">>))>>, TRUE)}

WideFileBodies ==
    {TextBody("oops"),
     ObjectBody(<<Member("shareable_link", JString(Template(1)))>>, TRUE)}

NextStatus ==
    \E r \in Requests :
        \/ Validate(r)
        \/ CallMessage(r)
        \/ \E resp \in WideResponses(WideMessageBodies) : MessageReturn(r, resp)
        \/ CallLink(r)
        \/ \E resp \in WideResponses(WideLinkBodies) : LinkReturn(r, resp)
        \/ CallFile(r)
        \/ \E resp \in WideResponses(WideFileBodies) : FileReturn(r, resp)
        \/ Compose(r)
        \/ TransportError(r)

SpecStatus == Init /\ [][NextStatus]_vars

-----------------------------------------------------------------------------
(* Two invocations in flight at once, their steps interleaved in every     *)
(* order. Each has a credential, a file name and a body of its own, and    *)
(* the backends give each its own message id and link token.               *)

InFlight == {1, 2}

Digit(r) == IF r = 1 THEN "1" ELSE "2"

ConcurrentRequest(r) ==
    [method |-> "POST",
     pathname |-> <<"/", "f", "/", Digit(r)>>,
     search |-> IF r = 1 THEN {} ELSE {<<"file_name", <<"60">>>>},
     headers |-> {<<AUTHORIZATION_KEY,
                    IF r = 1 THEN <<"Basic dTpw">> ELSE <<"Bearer t0k">>>>,
                  <<CONTENT_TYPE_KEY,
                    IF r = 1 THEN <<"text/plain">> ELSE <<"image/png">>>>},
     body |-> [StreamBody EXCEPT !.text = Digit(r)]]

\* the request of invocation r: a valid one, or one without Authorization
ConcurrentRequests(r) ==
    {ConcurrentRequest(r),
     [ConcurrentRequest(r) EXCEPT
          !.headers = {p \in @ : p[1] # AUTHORIZATION_KEY}]}

OwnId(r) == <<"m", Digit(r)>>
OwnToken(r) == <<"t", Digit(r)>>

\* the body the backend of `serviceName` answers invocation r with
OwnBody(r, serviceName) ==
    CASE serviceName = MESSAGE_SERVICE ->
             ObjectBody(<<Member("id", JString(OwnId(r)))>>, FALSE)
      [] serviceName = AUTH_SERVICE ->
             ObjectBody(<<Member("token", JString(OwnToken(r)))>>, FALSE)
      [] OTHER ->
             ObjectBody(<<Member("shareable_link", JString(Template(1))),
                          Member("owner", JString(OwnId(r)))>>, FALSE)

OwnResponse(r, serviceName, status) ==
    Response(status, StatusText(status), {}, OwnBody(r, serviceName))

ConcurrentResponses(r, serviceName) ==
    {OwnResponse(r, serviceName, st) : st \in {200, 500}}

InitConcurrent ==
    /\ \E q1 \in ConcurrentRequests(1) : \E q2 \in ConcurrentRequests(2) :
           req = [r \in Requests |->
                    IF r = 1 THEN q1 ELSE IF r = 2 THEN q2 ELSE IdleRequest]
    /\ pc = [r \in Requests |-> IF r \in InFlight THEN "Start" ELSE "Idle"]
    /\ name = [r \in Requests |-> <<>>]
    /\ expireAfter = [r \in Requests |-> Null]
    /\ calls = [r \in Requests |-> <<>>]
    /\ returns = [r \in Requests |-> <<>>]
    /\ messageResponse = [r \in Requests |-> NoDoc]
    /\ linkResponse = [r \in Requests |-> NoDoc]
    /\ responseData = [r \in Requests |-> NoDoc]
    /\ response = [r \in Requests |-> NoResponse]
    /\ error = [r \in Requests |-> "none"]
    /\ fetched = [r \in Requests |-> NoResponse]
    /\ bodyReads = [r \in Requests |-> 0]

NextConcurrent ==
    \E r \in InFlight :
        \/ Validate(r)
        \/ CallMessage(r)
        \/ \E resp \in ConcurrentResponses(r, MESSAGE_SERVICE) :
               MessageReturn(r, resp)
        \/ CallLink(r)
        \/ \E resp \in ConcurrentResponses(r, AUTH_SERVICE) : LinkReturn(r, resp)
        \/ CallFile(r)
        \/ \E resp \in ConcurrentResponses(r, FILE_SERVICE) : FileReturn(r, resp)
        \/ Compose(r)
        \/ TransportError(r)

SpecConcurrent == InitConcurrent /\ [][NextConcurrent]_vars

-----------------------------------------------------------------------------
(* Progress. The statements of handleRequest, createFile and request run   *)
(* to the next await once the event loop resumes them, which it does:      *)
(* weak fairness of HandlerStep. That an issued fetch settles, with a      *)
(* response or with an error, is the assumption under which termination    *)
(* is stated: weak fairness of FetchSettles. The code sets no timer.       *)

HandlerStep(r) ==
    \/ Validate(r)
    \/ CallMessage(r)
    \/ CallLink(r)
    \/ CallFile(r)
    \/ Compose(r)

FetchSettles(r) ==
    \/ \E resp \in WideResponses(WideMessageBodies) : MessageReturn(r, resp)
    \/ \E resp \in WideResponses(WideLinkBodies) : LinkReturn(r, resp)
    \/ \E resp \in WideResponses(WideFileBodies) : FileReturn(r, resp)
    \/ TransportError(r)

NextLive == \E r \in Requests : HandlerStep(r) \/ FetchSettles(r)

SpecLive ==
    /\ Init
    /\ [][NextLive]_vars
    /\ \A r \in Requests : WF_vars(HandlerStep(r)) /\ WF_vars(FetchSettles(r))

-----------------------------------------------------------------------------
(* Two invocations of the handler side by side: the second is given the    *)
(* request of the first with any other Authorization value in place of     *)
(* its own, and every fetch of the second resolves or rejects as the same  *)
(* fetch of the first did. The first moves when both are at the same       *)
(* place, the second moves next.                                           *)

\* the requests that differ from rq at most in the value of Authorization
Twins(rq) ==
    { q \in InboundRequests :
        /\ q.method = rq.method
        /\ q.pathname = rq.pathname
        /\ q.search = rq.search
        /\ q.body = rq.body
        /\ {p \in q.headers : p[1] # AUTHORIZATION_KEY}
               = {p \in rq.headers : p[1] # AUTHORIZATION_KEY}
        /\ HasEntry(q.headers, AUTHORIZATION_KEY)
               <=> HasEntry(rq.headers, AUTHORIZATION_KEY) }

\* the backend responses of the side-by-side runs: a success and a failure
\* status, no headers
TwinResponses(bodies) ==
    { resp \in BackendResponses(bodies) :
        resp.status \in {200, 500} /\ resp.headers = {} }

InitTwin ==
    /\ \E q \in InboundRequests : \E t \in Twins(q) :
           req = [r \in Requests |->
                    IF r = 1 THEN q ELSE IF r = 2 THEN t ELSE IdleRequest]
    /\ pc = [r \in Requests |-> IF r \in {1, 2} THEN "Start" ELSE "Idle"]
    /\ name = [r \in Requests |-> <<>>]
    /\ expireAfter = [r \in Requests |-> Null]
    /\ calls = [r \in Requests |-> <<>>]
    /\ returns = [r \in Requests |-> <<>>]
    /\ messageResponse = [r \in Requests |-> NoDoc]
    /\ linkResponse = [r \in Requests |-> NoDoc]
    /\ responseData = [r \in Requests |-> NoDoc]
    /\ response = [r \in Requests |-> NoResponse]
    /\ error = [r \in Requests |-> "none"]
    /\ fetched = [r \in Requests |-> NoResponse]
    /\ bodyReads = [r \in Requests |-> 0]

\* the fetch the second invocation awaits ended, for the first, in `kind`
Mirrored(kind) ==
    /\ Len(returns[1]) > Len(returns[2])
    /\ returns[1][Len(returns[2]) + 1].kind = kind

NextTwin ==
    \/ /\ pc[1] = pc[2]
       /\ \/ Validate(1)
          \/ CallMessage(1)
          \/ \E resp \in TwinResponses(MessageBodies) : MessageReturn(1, resp)
          \/ CallLink(1)
          \/ \E resp \in TwinResponses(LinkBodies) : LinkReturn(1, resp)
          \/ CallFile(1)
          \/ \E resp \in TwinResponses(FileBodies) : FileReturn(1, resp)
          \/ Compose(1)
          \/ TransportError(1)
    \/ /\ pc[1] # pc[2]
       /\ \/ Validate(2)
          \/ CallMessage(2)
          \/ Mirrored("response") /\ MessageReturn(2, fetched[1])
          \/ CallLink(2)
          \/ Mirrored("response") /\ LinkReturn(2, fetched[1])
          \/ CallFile(2)
          \/ Mirrored("response") /\ FileReturn(2, fetched[1])
          \/ Compose(2)
          \/ Mirrored("error") /\ TransportError(2)

SpecTwin == InitTwin /\ [][NextTwin]_vars

-----------------------------------------------------------------------------
(* The same two invocations side by side, on requests that differ only in  *)
(* their query string.                                                     *)

QuerySearches ==
    {{}, {<<"file_name", <<"60">>>>}, {<<"expire_after", <<"60">>>>}}

InitQuery ==
    /\ \E q \in InboundRequests : \E s1 \in QuerySearches : \E s2 \in QuerySearches :
           /\ q.search = {}
           /\ req = [r \in Requests |->
                       IF r = 1 THEN [q EXCEPT !.search = s1]
                       ELSE IF r = 2 THEN [q EXCEPT !.search = s2]
                       ELSE IdleRequest]
    /\ pc = [r \in Requests |-> IF r \in {1, 2} THEN "Start" ELSE "Idle"]
    /\ name = [r \in Requests |-> <<>>]
    /\ expireAfter = [r \in Requests |-> Null]
    /\ calls = [r \in Requests |-> <<>>]
    /\ returns = [r \in Requests |-> <<>>]
    /\ messageResponse = [r \in Requests |-> NoDoc]
    /\ linkResponse = [r \in Requests |-> NoDoc]
    /\ responseData = [r \in Requests |-> NoDoc]
    /\ response = [r \in Requests |-> NoResponse]
    /\ error = [r \in Requests |-> "none"]
    /\ fetched = [r \in Requests |-> NoResponse]
    /\ bodyReads = [r \in Requests |-> 0]

SpecQuery == InitQuery /\ [][NextTwin]_vars

-----------------------------------------------------------------------------
(* The earlier revision of the handler (src/su_service/package.json): its  *)
(* createFile returns the marked backend response itself. Invocation 1     *)
(* runs index.ts and invocation 2 the earlier revision, on the same        *)
(* request; every fetch of invocation 2 resolves or rejects as the same    *)
(* fetch of invocation 1 did. The checks of handleRequest and the three    *)
(* Requests are the same text in both revisions.                           *)

\* wasSuccessful(response)
wasSuccessful(resp) ==
    /\ resp.status >= 200
    /\ resp.status < 300
    /\ GetEntry(resp.headers, CONTENT_TYPE_KEY) = Str(JSON_TYPE)

\* toMutableResponse(response)
toMutableResponse(resp) ==
    Response(resp.status, resp.statusText, resp.headers, resp.body)

\* the by= value the earlier revision writes for a backend
ForwardedBy(serviceName) ==
    CASE serviceName = MESSAGE_SERVICE -> <<"by=", "message_service">>
      [] serviceName = AUTH_SERVICE -> <<"by=", "auth_service">>
      [] OTHER -> <<"by=", "file_service">>

\* EarlierMarked under the header and the value index.ts writes
EarlierMarkedAsNow(resp, serviceName) ==
    [toMutableResponse(resp) EXCEPT
        !.headers = SetEntry(@, RESPONSE_SOURCE_KEY, By(serviceName))]

\* xResponse.headers.set("Forwarded", "by=x_service") on the mutable copy
EarlierMarked(resp, serviceName) ==
    [toMutableResponse(resp) EXCEPT
        !.headers = SetEntry(@, "Forwarded", ForwardedBy(serviceName))]

\* a call of the earlier createFile returned resp: the response is returned
\* marked when it was not successful; otherwise its body is parsed and a
\* property read from it
EarlierReturn(r, resp, serviceName) ==
    /\ fetched' = [fetched EXCEPT ![r] = resp]
    /\ returns' = [returns EXCEPT ![r] = Append(@, Returned(serviceName, resp.status))]
    /\ IF ~wasSuccessful(resp) /\ ~Constructible(resp.status)
       THEN /\ pc' = [pc EXCEPT ![r] = "Errored"]
            /\ error' = [error EXCEPT ![r] = "RangeError"]
            /\ UNCHANGED <<response, messageResponse, linkResponse, responseData>>
       ELSE IF ~wasSuccessful(resp)
       THEN /\ pc' = [pc EXCEPT ![r] = "Failed"]
            /\ response' = [response EXCEPT ![r] = EarlierMarked(resp, serviceName)]
            /\ UNCHANGED <<error, messageResponse, linkResponse, responseData>>
       ELSE IF ~JsonOk(resp.body)
       THEN /\ pc' = [pc EXCEPT ![r] = "Errored"]
            /\ error' = [error EXCEPT ![r] = "SyntaxError"]
            /\ UNCHANGED <<response, messageResponse, linkResponse, responseData>>
       ELSE IF Json(resp.body).t = "null"
       THEN /\ pc' = [pc EXCEPT ![r] = "Errored"]
            /\ error' = [error EXCEPT ![r] = "TypeError"]
            /\ UNCHANGED <<response, messageResponse, linkResponse, responseData>>
       ELSE /\ pc' = [pc EXCEPT ![r] =
                        CASE serviceName = MESSAGE_SERVICE -> "MessageCreated"
                          [] serviceName = AUTH_SERVICE -> "LinkCreated"
                          [] OTHER -> "FileUploaded"]
            /\ messageResponse' =
                  IF serviceName = MESSAGE_SERVICE
                  THEN [messageResponse EXCEPT ![r] = Json(resp.body)]
                  ELSE messageResponse
            /\ linkResponse' =
                  IF serviceName = AUTH_SERVICE
                  THEN [linkResponse EXCEPT ![r] = Json(resp.body)]
                  ELSE linkResponse
            /\ responseData' =
                  IF serviceName = FILE_SERVICE
                  THEN [responseData EXCEPT ![r] = Json(resp.body)]
                  ELSE responseData
            /\ UNCHANGED <<response, error>>
    /\ UNCHANGED <<req, name, expireAfter, calls, bodyReads>>

EarlierMessageReturn(r, resp) ==
    pc[r] = "AwaitMessage" /\ EarlierReturn(r, resp, MESSAGE_SERVICE)

EarlierLinkReturn(r, resp) ==
    pc[r] = "AwaitLink" /\ EarlierReturn(r, resp, AUTH_SERVICE)

EarlierFileReturn(r, resp) ==
    pc[r] = "AwaitFile" /\ EarlierReturn(r, resp, FILE_SERVICE)

\* the success response of the earlier createFile: the file response's
\* status, status text and headers, with Location and Forwarded set
EarlierComposeResponse(resp, data, link) ==
    Response(resp.status, resp.statusText,
             SetEntry(SetEntry(resp.headers, LOCATION_KEY, Location(data, link)),
                      "Forwarded", ForwardedBy(FILE_SERVICE)),
             Stringify(data))

EarlierCompose(r) ==
    /\ pc[r] = "FileUploaded"
    /\ IF GetProp(responseData[r], "shareable_link").t # "string"
       THEN /\ pc' = [pc EXCEPT ![r] = "Errored"]
            /\ error' = [error EXCEPT ![r] = "TypeError"]
            /\ UNCHANGED response
       ELSE /\ pc' = [pc EXCEPT ![r] = "Completed"]
            /\ response' = [response EXCEPT ![r] =
                   EarlierComposeResponse(fetched[r], responseData[r],
                                          linkResponse[r])]
            /\ UNCHANGED error
    /\ UNCHANGED <<req, name, expireAfter, calls, returns, messageResponse,
                   linkResponse, responseData, fetched, bodyReads>>

EncodingHeaders == {{}, {<<CONTENT_TYPE_KEY, JSON_TYPE>>}}

EncodingResponses(bodies) ==
    { Response(st, StatusText(st), h, b) :
        st \in {200, 299, 500}, h \in EncodingHeaders, b \in bodies }

EncodingMessageBodies ==
    {TextBody("oops"), JsonNullBody, EmptyObjectBody,
     ObjectBody(<<Member("id", JString(<<"m", "1">>))>>, TRUE)}

EncodingLinkBodies ==
    {TextBody("oops"), JsonNullBody, EmptyObjectBody,
     ObjectBody(<<Member("token", JString(<<"t">>))>>, TRUE)}

EncodingFileBodies ==
    {TextBody("oops"), JsonNullBody, EmptyObjectBody,
     ObjectBody(<<Member("shareable_link", JString(Template(1)))>>, TRUE)}

InitEncodings ==
    /\ \E q \in InboundRequests :
           req = [r \in Requests |-> IF r \in {1, 2} THEN q ELSE IdleRequest]
    /\ pc = [r \in Requests |-> IF r \in {1, 2} THEN "Start" ELSE "Idle"]
    /\ name = [r \in Requests |-> <<>>]
    /\ expireAfter = [r \in Requests |-> Null]
    /\ calls = [r \in Requests |-> <<>>]
    /\ returns = [r \in Requests |-> <<>>]
    /\ messageResponse = [r \in Requests |-> NoDoc]
    /\ linkResponse = [r \in Requests |-> NoDoc]
    /\ responseData = [r \in Requests |-> NoDoc]
    /\ response = [r \in Requests |-> NoResponse]
    /\ error = [r \in Requests |-> "none"]
    /\ fetched = [r \in Requests |-> NoResponse]
    /\ bodyReads = [r \in Requests |-> 0]

\* invocation 1 may be given the outcome of its next fetch
Level == Len(returns[1]) = Len(returns[2]) \/ pc[2] \in Terminal

NextEncodings ==
    \/ Validate(1)
    \/ CallMessage(1)
    \/ Level /\ \E resp \in EncodingResponses(EncodingMessageBodies) :
                    MessageReturn(1, resp)
    \/ CallLink(1)
    \/ Level /\ \E resp \in EncodingResponses(EncodingLinkBodies) :
                    LinkReturn(1, resp)
    \/ CallFile(1)
    \/ Level /\ \E resp \in EncodingResponses(EncodingFileBodies) :
                    FileReturn(1, resp)
    \/ Compose(1)
    \/ Level /\ TransportError(1)
    \/ Validate(2)
    \/ CallMessage(2)
    \/ Mirrored("response") /\ EarlierMessageReturn(2, fetched[1])
    \/ CallLink(2)
    \/ Mirrored("response") /\ EarlierLinkReturn(2, fetched[1])
    \/ CallFile(2)
    \/ Mirrored("response") /\ EarlierFileReturn(2, fetched[1])
    \/ EarlierCompose(2)
    \/ Mirrored("error") /\ TransportError(2)

SpecEncodings == InitEncodings /\ [][NextEncodings]_vars

-----------------------------------------------------------------------------
(* Vocabulary of the properties *)

Is2xx(status) == status >= 200 /\ status <= 299

\* the i-th call came back with a 2xx response / with a non-2xx response
ReturnedOk(ret) == ret.kind = "response" /\ Is2xx(ret.status)
ReturnedFailure(ret) == ret.kind = "response" /\ ~Is2xx(ret.status)

SagaOrder == <<"message-service", "auth-service", "file-service">>

\* the provenance value of step i, written out
Provenance(i) == <<"by=", SagaOrder[i]>>

AllReturnedOk(r) ==
    Len(returns[r]) = 3 /\ \A i \in 1..3 : ReturnedOk(returns[r][i])

\* the state of the saga's state machine an invocation is in: a call in
\* flight belongs to the state that issued it
Phase(p) ==
    CASE p = "AwaitMessage" -> "Validated"
      [] p = "AwaitLink" -> "MessageCreated"
      [] p = "AwaitFile" -> "LinkCreated"
      [] OTHER -> p

SagaEdges ==
    { <<"Start", "Validated">>, <<"Validated", "MessageCreated">>,
      <<"MessageCreated", "LinkCreated">>, <<"LinkCreated", "FileUploaded">>,
      <<"FileUploaded", "Completed">> }

-----------------------------------------------------------------------------
\* C1: the backend calls of a request are issued in the order message,
\* link, file; call i+1 is issued only after call i returned a 2xx
\* response; at most one call of a request is outstanding; the states
\* Start, Validated, MessageCreated, LinkCreated, FileUploaded, Completed
\* are passed one after the other, and no terminal state is ever left.
C1_CallsInOrder ==
    \A r \in Requests :
        /\ Len(calls[r]) <= 3
        /\ \A i \in 1..Len(calls[r]) : calls[r][i].serviceName = SagaOrder[i]
        /\ Len(returns[r]) <= Len(calls[r])
        /\ Len(calls[r]) <= Len(returns[r]) + 1
        /\ \A i \in 2..Len(calls[r]) : ReturnedOk(returns[r][i - 1])

C1_StepsInOrder ==
    \A r \in Requests :
        Phase(pc'[r]) # Phase(pc[r]) =>
            /\ pc[r] \notin Terminal
            /\ \/ <<Phase(pc[r]), Phase(pc'[r])>> \in SagaEdges
               \/ pc'[r] \in {"Rejected", "Failed", "Errored"}

C1_StrictSequence == [](C1_CallsInOrder) /\ [][C1_StepsInOrder]_vars

C1_Witness ==
    \E r \in Requests :
        pc[r] = "Completed" /\ Len(calls[r]) = 3 /\ Len(returns[r]) = 3

-----------------------------------------------------------------------------
-----------------------------------------------------------------------------
-----------------------------------------------------------------------------
-----------------------------------------------------------------------------
-----------------------------------------------------------------------------
\* C6: a forwarded failure carries the provenance of the backend whose call
\* failed (message-service, auth-service, file-service for steps 1, 2, 3),
\* and a response carries Response-Source exactly when it is a forwarded
\* failure: the 201 and the validation errors carry none.
C6_Provenance ==
    \A r \in Requests :
        /\ pc[r] = "Failed" =>
              /\ ReturnedFailure(returns[r][Len(returns[r])])
              /\ returns[r][Len(returns[r])].serviceName = SagaOrder[Len(returns[r])]
              /\ GetEntry(response[r].headers, "Response-Source")
                   = Str(Provenance(Len(returns[r])))
        /\ HasEntry(response[r].headers, "Response-Source") <=> pc[r] = "Failed"
        /\ pc[r] \in {"Completed", "Rejected"} =>
              /\ response[r] # NoResponse
              /\ \A p \in response[r].headers : p[1] # "Response-Source"

C6_Witness ==
    \E r \in Requests :
        /\ pc[r] = "Failed"
        /\ Len(returns[r]) = 3
        /\ GetEntry(response[r].headers, "Response-Source")
             = Str(<<"by=", "file-service">>)

-----------------------------------------------------------------------------
\* C7: each backend is called at most once and at most three calls are
\* made; the calls are the three creating calls (POST, POST, PUT), none
\* deletes or repeats; once a call has failed, and once the request has
\* ended, no further call is issued.
C7_EachOnce ==
    \A r \in Requests :
        /\ Len(calls[r]) <= 3
        /\ \A i, j \in 1..Len(calls[r]) :
              i # j => calls[r][i].serviceName # calls[r][j].serviceName
        /\ \A i \in 1..Len(calls[r]) : calls[r][i].method \in {"POST", "PUT"}
        /\ \A i \in 1..Len(returns[r]) :
              ~ReturnedOk(returns[r][i]) => Len(calls[r]) = i

C7_NoCallAfterEnd ==
    \A r \in Requests :
        (\/ pc[r] \in Terminal
         \/ \E i \in 1..Len(returns[r]) : ~ReturnedOk(returns[r][i]))
            => calls'[r] = calls[r]

C7_NoRetryNoCompensation == [](C7_EachOnce) /\ [][C7_NoCallAfterEnd]_vars

\* the file call failed after message and link were created: three calls
C7_Witness ==
    \E r \in Requests :
        /\ pc[r] = "Failed"
        /\ Len(calls[r]) = 3
        /\ ReturnedOk(returns[r][1])
        /\ ReturnedOk(returns[r][2])
        /\ ReturnedFailure(returns[r][3])

-----------------------------------------------------------------------------
(* JSON texts compared as JSON *)

Keys(ms) == {ms[i].key : i \in 1..Len(ms)}

\* the value a JSON text gives a key: that of its last member with the key
LastValue(ms, key) ==
    ms[CHOOSE i \in 1..Len(ms) :
         ms[i].key = key /\ \A j \in 1..Len(ms) : ms[j].key = key => j <= i].val

\* the exact mathematical value of a number literal, in shortest spelling
ExactValue(lit) ==
    CASE lit = "1.0" -> "1"
      [] OTHER -> lit

SameValue(a, b) ==
    /\ a.t = b.t
    /\ IF a.t = "number" THEN ExactValue(a.v[1]) = ExactValue(b.v[1])
       ELSE a.v = b.v

-----------------------------------------------------------------------------
\* C8: when the three backend calls succeeded and the response is composed,
\* its status is 201 and its JSON body equals the file backend's body: the
\* same keys, each with the same value.
C8_BodyEqual ==
    \A r \in Requests :
        (pc[r] = "Completed" /\ AllReturnedOk(r)) =>
            /\ response[r].status = 201
            /\ response[r].body.kind = "object"
            /\ fetched[r].body.kind = "object"
            /\ Keys(response[r].body.members) = Keys(fetched[r].body.members)
            /\ \A k \in Keys(fetched[r].body.members) :
                  SameValue(LastValue(fetched[r].body.members, k),
                            LastValue(response[r].body.members, k))

-----------------------------------------------------------------------------
\* s with the first occurrence of {link_token} replaced by the characters
\* of tok; s itself when {link_token} does not occur
LiteralFirst(s, tok) ==
    IF IndexOf(s, LINK_TOKEN) = 0 THEN s
    ELSE SubSeq(s, 1, IndexOf(s, LINK_TOKEN) - 1) \o tok
         \o SubSeq(s, IndexOf(s, LINK_TOKEN) + Len(LINK_TOKEN), Len(s))

\* C9: on success Location is shareable_link with the first {link_token}
\* replaced by the token, character for character, for every token string;
\* later occurrences stay, and a link without the placeholder is unchanged.
C9_LiteralSubstitution ==
    \A r \in Requests :
        (pc[r] = "Completed" /\ GetProp(linkResponse[r], "token").t = "string") =>
            GetEntry(response[r].headers, "Location")
              = Str(LiteralFirst(GetProp(responseData[r], "shareable_link").v,
                                 GetProp(linkResponse[r], "token").v))

-----------------------------------------------------------------------------
HasAuthorization(rq) == \E p \in rq.headers : p[1] = "Authorization"

PathShapeOk(rq) ==
    Len(Split(rq.pathname)) = 3 /\ Split(rq.pathname)[3] # <<>>

Challenges(resp) ==
    resp.status = 403 /\ <<"WWW-Authenticate", <<"Basic">>>> \in resp.headers

\* C10 as stated: a request without an Authorization header gets a 403 with
\* WWW-Authenticate: Basic whatever its path and method.
C10_AlwaysForbidden ==
    \A r \in Requests :
        (pc[r] \notin {"Idle", "Start"} /\ ~HasAuthorization(req[r])) =>
            Challenges(response[r])

\* C10 as amended: a request without an Authorization header gets a 403
\* with WWW-Authenticate: Basic when its path has the right shape and its
\* method is POST, whatever its Content-Type and body; it gets a 404 when
\* the path has the wrong shape and a 405 when the path is right and the
\* method is not POST.
C10_ForbiddenAfterPathAndMethod ==
    \A r \in Requests :
        (pc[r] \notin {"Idle", "Start"} /\ ~HasAuthorization(req[r])) =>
            /\ pc[r] = "Rejected"
            /\ IF ~PathShapeOk(req[r]) THEN response[r].status = 404
               ELSE IF req[r].method # "POST" THEN response[r].status = 405
               ELSE Challenges(response[r])

\* a POST to a well-shaped path that lacks Authorization and Content-Type
C10_Witness ==
    \E r \in Requests :
        /\ pc[r] = "Rejected"
        /\ req[r].headers = {}
        /\ PathShapeOk(req[r])
        /\ req[r].method = "POST"
        /\ Challenges(response[r])

-----------------------------------------------------------------------------
(* The path contract *)

\* the segments of a pathname after the root
Segments(rq) == Tail(Split(rq.pathname))

TwoNonEmptySegments(rq) ==
    /\ Len(Segments(rq)) = 2
    /\ \A i \in 1..Len(Segments(rq)) : Segments(rq)[i] # <<>>

\* C11: a request is answered 404 exactly when its path is not made of two
\* non-empty segments after the root, whatever its method and headers: an
\* empty file name, a wrong segment count and an empty first segment all
\* give 404, and no path of two non-empty segments does.
C11_TwoNonEmptySegments ==
    \A r \in Requests :
        pc[r] \notin {"Idle", "Start"} =>
            (response[r].status = 404 <=> ~TwoNonEmptySegments(req[r]))

\* C12: a request whose path is made of two non-empty segments and whose
\* method is not POST is answered 405 whatever its headers and body; a
\* request whose path is not of that shape and whose method is not POST is
\* answered 404, not 405.
C12_MethodAfterPath ==
    \A r \in Requests :
        (pc[r] \notin {"Idle", "Start"} /\ req[r].method # "POST") =>
            response[r].status = IF TwoNonEmptySegments(req[r]) THEN 405 ELSE 404

-----------------------------------------------------------------------------
(* The header and body checks *)

HasContentType(rq) == \E p \in rq.headers : p[1] = "Content-Type"

\* the header is there and its value is not the empty string
NonEmptyHeader(rq, key) == \E p \in rq.headers : p[1] = key /\ p[2] # <<"">>

Validated(r) ==
    /\ pc[r] \notin {"Idle", "Start", "Rejected"}
    /\ pc[r] = "Validated" => response[r] = NoResponse
    /\ pc[r] # "Validated" =>
           Len(calls[r]) >= 1 /\ calls[r][1].serviceName = "message-service"

BadRequest(r) == pc[r] = "Rejected" /\ response[r].status = 400

\* C13 as stated: a POST request with a path of two non-empty segments and
\* an Authorization header is answered 400 when it has no Content-Type
\* header, 400 when it has one and its body is null, and passes validation
\* when it has both headers and a body.
C13_HeadersPresent ==
    \A r \in Requests :
        (/\ pc[r] \notin {"Idle", "Start"}
         /\ req[r].method = "POST"
         /\ TwoNonEmptySegments(req[r])
         /\ HasAuthorization(req[r])) =>
            /\ ~HasContentType(req[r]) => BadRequest(r)
            /\ (HasContentType(req[r]) /\ req[r].body.kind = "null") =>
                   BadRequest(r)
            /\ (HasContentType(req[r]) /\ req[r].body.kind # "null") =>
                   Validated(r)

\* C13: a POST request with a path of two non-empty segments and an
\* Authorization header of non-empty value is answered 400 when its
\* Content-Type header is absent or empty, 400 when its Content-Type is not
\* empty and its body is null, and passes validation, the message-creation
\* call being its first call, when both header values are non-empty and the
\* body is not null.
C13_HeadersNonEmpty ==
    \A r \in Requests :
        (/\ pc[r] \notin {"Idle", "Start"}
         /\ req[r].method = "POST"
         /\ TwoNonEmptySegments(req[r])
         /\ NonEmptyHeader(req[r], "Authorization")) =>
            /\ ~NonEmptyHeader(req[r], "Content-Type") =>
                   /\ BadRequest(r)
                   /\ response[r].body = TextBody("Missing content type header")
            /\ (NonEmptyHeader(req[r], "Content-Type")
                    /\ req[r].body.kind = "null") =>
                   /\ BadRequest(r)
                   /\ response[r].body = TextBody("Missing body")
            /\ (NonEmptyHeader(req[r], "Content-Type")
                    /\ req[r].body.kind # "null") =>
                   Validated(r)

C13_Witness ==
    \E r \in Requests :
        /\ req[r].method = "POST"
        /\ TwoNonEmptySegments(req[r])
        /\ NonEmptyHeader(req[r], "Authorization")
        /\ NonEmptyHeader(req[r], "Content-Type")
        /\ req[r].body.kind = "null"
        /\ BadRequest(r)

-----------------------------------------------------------------------------
(* Validation before any backend call *)

ClientInputError == {400, 403, 404, 405}

\* the five checks of handleRequest, on the request itself
FiveChecksPass(rq) ==
    /\ PathShapeOk(rq)
    /\ rq.method = "POST"
    /\ NonEmptyHeader(rq, "Authorization")
    /\ NonEmptyHeader(rq, "Content-Type")
    /\ rq.body.kind # "null"

NothingSent(r) == calls[r] = <<>> /\ returns[r] = <<>> /\ bodyReads[r] = 0

C14_RejectedLocally ==
    \A r \in Requests :
        /\ pc[r] = "Rejected" =>
               response[r].status \in ClientInputError /\ NothingSent(r)
        /\ ~FiveChecksPass(req[r]) =>
               NothingSent(r) /\ pc[r] \in {"Idle", "Start", "Rejected"}
        /\ (calls[r] # <<>> \/ bodyReads[r] > 0) => FiveChecksPass(req[r])

C14_CallsOnlyOnceValidated ==
    \A r \in Requests :
        (calls'[r] # calls[r] \/ bodyReads'[r] # bodyReads[r]) =>
            /\ pc[r] \notin {"Idle", "Start", "Rejected"}
            /\ FiveChecksPass(req[r])

\* C14: a request answered 400, 403, 404 or 405 by validation causes no
\* backend call and its body stream is never read; a backend call is only
\* ever issued, and the body only ever read, for a request that has passed
\* all five validation checks.
C14_ValidationBeforeCalls ==
    []C14_RejectedLocally /\ [][C14_CallsOnlyOnceValidated]_vars

C14_Witness ==
    \E r \in Requests :
        /\ pc[r] = "Rejected"
        /\ response[r].status = 403
        /\ req[r].body.kind = "stream"
        /\ NothingSent(r)

-----------------------------------------------------------------------------
(* The Authorization value *)

\* C15, first half: every backend call carries as Authorization exactly
\* the Authorization entry of the inbound request
CallsCarryAuthorization ==
    \A r \in Requests : \A i \in 1..Len(calls[r]) :
        {p \in calls[r][i].headers : p[1] = "Authorization"}
            = {p \in req[r].headers : p[1] = "Authorization"}

WithoutAuthorization(call) ==
    [call EXCEPT !.headers = {p \in @ : p[1] # "Authorization"}]

\* two invocations at the same place have done the same but for the
\* Authorization value of their calls
SameSoFar ==
    pc[1] = pc[2] =>
        /\ response[1] = response[2]
        /\ error[1] = error[2]
        /\ returns[1] = returns[2]
        /\ bodyReads[1] = bodyReads[2]
        /\ Len(calls[1]) = Len(calls[2])
        /\ \A i \in 1..Len(calls[1]) :
               WithoutAuthorization(calls[1][i]) = WithoutAuthorization(calls[2][i])

\* a step of the second invocation takes it where the first one is
Follows == pc'[2] # pc[2] => pc'[2] = pc[1]

BothNonEmptyOrNeither ==
    NonEmptyHeader(req[1], "Authorization")
        <=> NonEmptyHeader(req[2], "Authorization")

\* C15 as stated: every backend call carries the inbound Authorization
\* value unmodified, and two requests that differ only in the value of
\* their Authorization header are taken through the same steps to the same
\* response.
C15_PresenceOnly ==
    [](CallsCarryAuthorization /\ SameSoFar) /\ [][Follows]_vars

\* C15: every backend call carries the inbound Authorization value
\* unmodified, and two requests that differ only in the value of their
\* Authorization header, both values empty or both non-empty, are taken
\* through the same steps to the same response.
C15_PresenceAndNonEmptiness ==
    /\ [](CallsCarryAuthorization /\ (BothNonEmptyOrNeither => SameSoFar))
    /\ [][BothNonEmptyOrNeither => Follows]_vars

C15_Witness ==
    /\ NonEmptyHeader(req[1], "Authorization")
    /\ NonEmptyHeader(req[2], "Authorization")
    /\ req[1].headers # req[2].headers
    /\ pc[1] = "Completed" /\ pc[2] = "Completed"
    /\ response[1] = response[2]
    /\ Len(calls[1]) = 3 /\ Len(calls[2]) = 3
    /\ calls[1][3] # calls[2][3]

-----------------------------------------------------------------------------
(* What each call carries of the inbound request *)

ContentTypeOf(headers) == {p[2] : p \in {q \in headers : q[1] = "Content-Type"}}

\* C16: the message-creation and link-creation calls carry the body {} with
\* Content-Type application/json, never the inbound body or Content-Type;
\* the file-upload call carries the inbound body stream and the inbound
\* Content-Type value unchanged.
C16_BodyOnlyToFileBackend ==
    \A r \in Requests : \A i \in 1..Len(calls[r]) :
        IF calls[r][i].serviceName = "file-service"
        THEN /\ calls[r][i].body = req[r].body
             /\ calls[r][i].body.kind = "stream"
             /\ ContentTypeOf(calls[r][i].headers) = ContentTypeOf(req[r].headers)
        ELSE /\ calls[r][i].serviceName \in {"message-service", "auth-service"}
             /\ calls[r][i].body = ObjectBody(<<>>, FALSE)
             /\ calls[r][i].body # req[r].body
             /\ ContentTypeOf(calls[r][i].headers) = {<<"application/json">>}

C16_Witness ==
    \E r \in Requests :
        /\ Len(calls[r]) = 3
        /\ calls[r][1].body = ObjectBody(<<>>, FALSE)
        /\ calls[r][2].body = ObjectBody(<<>>, FALSE)
        /\ calls[r][3].serviceName = "file-service"
        /\ calls[r][3].body.kind = "stream"
        /\ ContentTypeOf(calls[r][3].headers) = {<<"text/plain">>}

-----------------------------------------------------------------------------
(* The file name in the outbound path *)

\* the character a percent escape stands for
DecodeEscape(hex) ==
    CASE hex = <<"2", "0">> -> " "
      [] hex = <<"2", "3">> -> "#"
      [] hex = <<"2", "5">> -> "%"
      [] hex = <<"2", "F">> -> "/"

\* percent-decoding, once
RECURSIVE PercentDecode(_)
PercentDecode(s) ==
    IF s = <<>> THEN <<>>
    ELSE IF Head(s) = "%" /\ Len(s) >= 3
    THEN <<DecodeEscape(SubSeq(s, 2, 3))>> \o PercentDecode(SubSeq(s, 4, Len(s)))
    ELSE <<Head(s)>> \o PercentDecode(Tail(s))

\* the file name the client put, percent-encoded, at the end of the URL
OriginalName(rq) == PercentDecode(Split(rq.pathname)[Len(Split(rq.pathname))])

\* the last segment of the path of the file-upload call
OutboundName(call) == call.path[Len(call.path)]

\* C17: the file name in the path of the file-upload call is the file name
\* of the inbound request percent-encoded exactly once: decoding the
\* outbound segment once gives back the original name, also for a name
\* with a space that arrives percent-encoded in the request URL.
C17_EncodedOnce ==
    \A r \in Requests : \A i \in 1..Len(calls[r]) :
        calls[r][i].serviceName = "file-service" =>
            PercentDecode(OutboundName(calls[r][i])) = OriginalName(req[r])

-----------------------------------------------------------------------------
(* The inbound body stream *)

UploadReached(r) ==
    \E i \in 1..Len(calls[r]) : calls[r][i].serviceName = "file-service"

C18_ReadByUploadOnly ==
    \A r \in Requests :
        /\ bodyReads[r] \in {0, 1}
        /\ bodyReads[r] = 1 <=> UploadReached(r)
        /\ \A i \in 1..Len(calls[r]) :
               calls[r][i].body.kind = "stream" =>
                   calls[r][i].serviceName = "file-service"
        /\ Cardinality({i \in 1..Len(calls[r]) :
                            calls[r][i].body.kind = "stream"}) = bodyReads[r]
        /\ response[r].body.kind # "stream"

C18_ReadAtUploadStep ==
    \A r \in Requests :
        bodyReads'[r] # bodyReads[r] =>
            /\ pc[r] = "LinkCreated" /\ pc'[r] = "AwaitFile"
            /\ bodyReads[r] = 0 /\ bodyReads'[r] = 1

\* C18: the inbound body stream is read at most once and only by the
\* file-upload call, not by validation, the message-creation or
\* link-creation call or the composition of the response; once the upload
\* step is reached it has been read exactly once, and it is never read
\* again.
C18_ConsumedOnce ==
    []C18_ReadByUploadOnly /\ [][C18_ReadAtUploadStep]_vars

C18_Witness ==
    \E r \in Requests :
        /\ pc[r] = "Completed"
        /\ response[r].status = 201
        /\ UploadReached(r)
        /\ bodyReads[r] = 1

-----------------------------------------------------------------------------
(* Transport errors *)

\* a fetch of request r was rejected: no HTTP response at all
TransportFailed(r) ==
    \E i \in 1..Len(returns[r]) : returns[r][i].kind = "error"

C19_ErrorPropagated ==
    \A r \in Requests :
        TransportFailed(r) =>
            /\ pc[r] = "Errored"
            /\ error[r] = "NetworkError"
            /\ response[r] = NoResponse
            /\ response[r].status # 201
            /\ ~HasEntry(response[r].headers, "Response-Source")
            /\ returns[r][Len(returns[r])].kind = "error"
            /\ \A i \in 1..(Len(returns[r]) - 1) : returns[r][i].kind = "response"
            /\ Len(calls[r]) = Len(returns[r])

C19_NothingAfterError ==
    \A r \in Requests :
        TransportFailed(r) =>
            /\ calls'[r] = calls[r]
            /\ returns'[r] = returns[r]
            /\ pc'[r] = pc[r]
            /\ response'[r] = response[r]
            /\ error'[r] = error[r]

\* C19: when a backend call of a request ends without any HTTP response, at
\* whichever of the three steps, the request does not end in a 201 or in a
\* response marked as forwarded from a backend; no further backend call is
\* issued and the error leaves handleRequest.
C19_TransportErrorNotSwallowed ==
    []C19_ErrorPropagated /\ [][C19_NothingAfterError]_vars

C19_Witness ==
    \E r \in Requests :
        /\ Len(returns[r]) = 3
        /\ returns[r][3] = [serviceName |-> "file-service", kind |-> "error",
                            status |-> 0]
        /\ pc[r] = "Errored"
        /\ error[r] = "NetworkError"

-----------------------------------------------------------------------------
(* The id and the token a request uses *)

\* the success response parsed into doc has the property
Yielded(doc, key) == doc.t = "object" /\ \E i \in 1..Len(doc.props) : doc.props[i].key = key

IssuedTo(r, serviceName) ==
    {i \in 1..Len(calls[r]) : calls[r][i].serviceName = serviceName}

\* C20: the link-creation call is a POST to /messages/{id}/links and the
\* file-upload call a PUT to /messages/{id}/files/{name}, {id} being the id
\* in this request's message-creation response; the 201 is composed only
\* with a token of this request's link-creation response. No link or file
\* call is issued when the message response had no id, and no 201 is
\* composed when the link response had no token.
C20_IdAndTokenProduced ==
    \A r \in Requests :
        /\ \A i \in IssuedTo(r, "auth-service") :
               /\ Yielded(messageResponse[r], "id")
               /\ calls[r][i].method = "POST"
               /\ calls[r][i].path =
                      <<<<"messages">>, ToString(GetProp(messageResponse[r], "id")),
                        <<"links">>>>
        /\ \A i \in IssuedTo(r, "file-service") :
               /\ Yielded(messageResponse[r], "id")
               /\ calls[r][i].method = "PUT"
               /\ calls[r][i].path =
                      <<<<"messages">>, ToString(GetProp(messageResponse[r], "id")),
                        <<"files">>, name[r]>>
        /\ pc[r] = "Completed" => Yielded(linkResponse[r], "token")

-----------------------------------------------------------------------------
(* Classification of a backend response *)

\* the parsed document of the i-th call of request r
StepDoc(r, i) ==
    CASE i = 1 -> messageResponse[r]
      [] i = 2 -> linkResponse[r]
      [] OTHER -> responseData[r]

\* the last call of request r returned a response with this status
LastReturned(r, status) ==
    /\ Len(returns[r]) >= 1
    /\ returns[r][Len(returns[r])].kind = "response"
    /\ returns[r][Len(returns[r])].status = status

\* the response of request r is the last backend response, forwarded as a
\* failure with its body neither read nor parsed
ForwardedUnread(r) ==
    /\ pc[r] = "Failed"
    /\ response[r].status = fetched[r].status
    /\ response[r].body = fetched[r].body
    /\ HasEntry(response[r].headers, "Response-Source")
    /\ StepDoc(r, Len(returns[r])) = NoDoc
    /\ Len(calls[r]) = Len(returns[r])

\* 2xx statuses never give a forwarded failure
TakenAsSuccess(r) ==
    /\ pc[r] # "Failed"
    /\ ~HasEntry(response[r].headers, "Response-Source")
    /\ error[r] # "RangeError"

\* C21 as stated: a backend response is a success exactly when its status
\* is from 200 to 299; with every other status, 199 and 300 among them, it
\* is forwarded as a failure, its body neither read nor parsed.
C21_EveryOtherStatusForwarded ==
    \A r \in Requests : \A st \in WideStatuses :
        LastReturned(r, st) =>
            IF 200 <= st /\ st <= 299 THEN TakenAsSuccess(r) ELSE ForwardedUnread(r)

\* C21: a backend response is a success exactly when its status is from 200
\* to 299; with every other status from 200 to 599 (300 among them) it is
\* forwarded as a failure, its body neither read nor parsed; with a status
\* below 200 or above 599 (199 among them) it is a failure that cannot be
\* forwarded: the request ends with a RangeError and no response.
C21_StatusAlone ==
    \A r \in Requests : \A st \in WideStatuses :
        LastReturned(r, st) =>
            CASE 200 <= st /\ st <= 299 -> TakenAsSuccess(r)
              [] 300 <= st /\ st <= 599 -> ForwardedUnread(r)
              [] OTHER -> /\ pc[r] = "Errored"
                          /\ error[r] = "RangeError"
                          /\ response[r] = NoResponse
                          /\ StepDoc(r, Len(returns[r])) = NoDoc
                          /\ Len(calls[r]) = Len(returns[r])

C21_Witness ==
    \E r \in Requests :
        /\ LastReturned(r, 300)
        /\ Len(returns[r]) = 2
        /\ fetched[r].body = TextBody("oops")
        /\ ForwardedUnread(r)

-----------------------------------------------------------------------------
(* Concurrent requests *)

\* what invocation r does when it runs alone: its calls, from its own
\* request and the id its own message response yields
AloneCalls(r) ==
    <<MessageCall(Auth(req[r])),
      LinkCall(Auth(req[r]), Json(OwnBody(r, "message-service"))),
      FileCall(Auth(req[r]), Json(OwnBody(r, "message-service")),
               encodeURIComponent(FileName(req[r])), req[r].body,
               ContentType(req[r]))>>

LastReturn(r) == returns[r][Len(returns[r])]

\* ... and its response, from its own request and its own backend responses
AloneResponse(r) ==
    CASE pc[r] = "Rejected" -> ValidationResponse(req[r])
      [] pc[r] = "Failed" ->
             FailureResponse(OwnResponse(r, LastReturn(r).serviceName,
                                         LastReturn(r).status),
                             LastReturn(r).serviceName)
      [] pc[r] = "Completed" ->
             ComposeResponse(Json(OwnBody(r, "file-service")),
                             Json(OwnBody(r, "auth-service")))
      [] OTHER -> NoResponse

\* ... and how it ends, from its own request and the outcomes of its calls
AloneEnd(r) ==
    /\ pc[r] = "Rejected" <=>
           (pc[r] # "Start" /\ ValidationResponse(req[r]) # NoResponse)
    /\ pc[r] = "Failed" <=>
           (returns[r] # <<>> /\ ReturnedFailure(LastReturn(r)))
    /\ pc[r] = "Errored" <=>
           (returns[r] # <<>> /\ LastReturn(r).kind = "error")
    /\ pc[r] \in {"FileUploaded", "Completed"} <=> AllReturnedOk(r)
    /\ \A i \in 1..Len(returns[r]) : returns[r][i].serviceName = SagaOrder[i]
    /\ Len(calls[r]) <= 3

RangeOf(seq) == {seq[i] : i \in 1..Len(seq)}

\* nothing of invocation o in a call or in the response of invocation r
NothingOf(o, r) ==
    /\ \A i \in 1..Len(calls[r]) :
           /\ calls[r][i].headers \cap
                  {p \in req[o].headers : p[1] = "Authorization"} = {}
           /\ OwnId(o) \notin RangeOf(calls[r][i].path)
           /\ calls[r][i].body # req[o].body
    /\ \A p \in response[r].headers :
           p[1] = "Location" => p[2] = <<"u", "/">> \o OwnToken(r)
    /\ \A i \in 1..Len(response[r].body.members) :
           response[r].body.members[i].val # JString(OwnId(o))

C22_AsIfAlone ==
    \A r \in InFlight :
        /\ calls[r] = SubSeq(AloneCalls(r), 1, Len(calls[r]))
        /\ response[r] = AloneResponse(r)
        /\ AloneEnd(r)
        /\ \A o \in InFlight \ {r} : NothingOf(o, r)

UntouchedBy(o) ==
    /\ req'[o] = req[o] /\ pc'[o] = pc[o] /\ name'[o] = name[o]
    /\ expireAfter'[o] = expireAfter[o]
    /\ calls'[o] = calls[o] /\ returns'[o] = returns[o]
    /\ messageResponse'[o] = messageResponse[o]
    /\ linkResponse'[o] = linkResponse[o]
    /\ responseData'[o] = responseData[o]
    /\ response'[o] = response[o] /\ error'[o] = error[o]
    /\ fetched'[o] = fetched[o] /\ bodyReads'[o] = bodyReads[o]

\* a step of one invocation changes nothing of any other invocation,
\* finished or not, and a finished invocation changes no more
C22_OwnStateOnly ==
    /\ \E r \in InFlight : \A o \in Requests \ {r} : UntouchedBy(o)
    /\ \A o \in InFlight : pc[o] \in Terminal => UntouchedBy(o)

\* C22: whatever the interleaving of the steps of two requests in flight,
\* the backend calls and the client response of each are those it has when
\* it runs alone with the same backend responses; the message id, link
\* token, credential and body of one never appear in a call or a response
\* of the other, and nothing is kept from a finished request.
C22_NoInterference ==
    []C22_AsIfAlone /\ [][C22_OwnStateOnly]_vars

C22_Witness ==
    /\ pc[1] = "Completed" /\ pc[2] = "Completed"
    /\ response[1].status = 201 /\ response[2].status = 201
    /\ response[1] # response[2]
    /\ calls[1][2].path # calls[2][2].path

-----------------------------------------------------------------------------
(* The two encodings of failure forwarding *)

BothEnded == pc[1] \in Terminal /\ pc[2] \in Terminal

Unmarked(headers, key) == {p \in headers : p[1] # key}

\* C23 as stated: for every request and every sequence of backend
\* responses, index.ts and the earlier revision issue the same backend calls
\* and give the client the same status, headers and body.
C23_Indistinguishable ==
    BothEnded =>
        /\ calls[1] = calls[2]
        /\ response[1].status = response[2].status
        /\ response[1].headers = response[2].headers
        /\ response[1].body = response[2].body

\* every 2xx response had Content-Type application/json, and the link
\* response was not the JSON text null
PlainResponses ==
    /\ ~(pc[2] = "Failed" /\ Is2xx(response[2].status))
    /\ linkResponse[1] # NullDoc

\* C23: when every 2xx backend response has Content-Type application/json
\* and the link response is not null, index.ts and the earlier revision
\* issue the same backend calls and end the same way: with the same
\* validation response; with the same error; with a forwarded failure of
\* the same status, body and backend headers, marked Response-Source:
\* by=x-service by index.ts and Forwarded: by=x_service by the earlier
\* revision; or with a success of the same body and Location, which has
\* status 201 and no other header than Content-Type in index.ts, and the
\* file response's status and headers and the Forwarded marker in the
\* earlier revision.
C23_SameUpToMarker ==
    (BothEnded /\ PlainResponses) =>
        /\ calls[1] = calls[2]
        /\ returns[1] = returns[2]
        /\ pc[1] = pc[2]
        /\ error[1] = error[2]
        /\ response[1].body = response[2].body
        /\ pc[1] = "Rejected" => response[1] = response[2]
        /\ pc[1] = "Errored" => response[1] = NoResponse /\ response[2] = NoResponse
        /\ pc[1] = "Failed" =>
               /\ response[1].status = response[2].status
               /\ response[1].statusText = response[2].statusText
               /\ Unmarked(response[1].headers, "Response-Source")
                      = Unmarked(response[2].headers, "Forwarded")
               /\ Unmarked(response[1].headers, "Response-Source") = fetched[1].headers
               /\ <<"Response-Source", Provenance(Len(returns[1]))>>
                      \in response[1].headers
               /\ \E svc \in {"message_service", "auth_service", "file_service"} :
                      <<"Forwarded", <<"by=", svc>>>> \in response[2].headers
        /\ pc[1] = "Completed" =>
               /\ GetEntry(response[1].headers, "Location")
                      = GetEntry(response[2].headers, "Location")
               /\ response[1].status = 201
               /\ response[2].status = fetched[2].status
               /\ {p[1] : p \in response[1].headers} = {"Content-Type", "Location"}
               /\ Unmarked(Unmarked(response[2].headers, "Location"), "Forwarded")
                      = fetched[2].headers
               /\ <<"Forwarded", <<"by=", "file_service">>>> \in response[2].headers

C23_Witness ==
    /\ pc[1] = "Failed" /\ pc[2] = "Failed"
    /\ Len(returns[1]) = 2 /\ Len(returns[2]) = 2
    /\ response[1].status = 500 /\ response[2].status = 500
    /\ <<"Response-Source", <<"by=", "auth-service">>>> \in response[1].headers
    /\ <<"Forwarded", <<"by=", "auth_service">>>> \in response[2].headers
    /\ <<"Content-Type", <<"application/json">>>> \in response[2].headers

-----------------------------------------------------------------------------
(* The query string *)

\* the value of the query parameter named file_name, or null
FileNameParameter(rq) ==
    IF \E p \in rq.search : p[1] = "file_name"
    THEN [isNull |-> FALSE, v |-> (CHOOSE p \in rq.search : p[1] = "file_name")[2]]
    ELSE [isNull |-> TRUE, v |-> <<>>]

C24_ReadFromFileName ==
    \A r \in {1, 2} :
        expireAfter[r] = IF pc[r] \in {"Start", "Rejected"}
                         THEN [isNull |-> TRUE, v |-> <<>>]
                         ELSE FileNameParameter(req[r])

\* two invocations at the same place have issued the same calls and have
\* the same response
C24_SameCallsAndResponse ==
    pc[1] = pc[2] =>
        /\ calls[1] = calls[2]
        /\ returns[1] = returns[2]
        /\ response[1] = response[2]
        /\ error[1] = error[2]
        /\ name[1] = name[2]
        /\ bodyReads[1] = bodyReads[2]

C24_SecondFollows == pc'[2] # pc[2] => pc'[2] = pc[1]

\* C24: the expiry value is the value of the query parameter named
\* file_name, and nothing depends on it: two requests that differ only in
\* their query string issue the same backend calls, endpoint, method,
\* headers and body, and with the same backend responses get the same
\* client response.
C24_QueryInfluencesNothing ==
    /\ [](C24_ReadFromFileName /\ C24_SameCallsAndResponse)
    /\ [][C24_SecondFollows]_vars

C24_Witness ==
    /\ req[1].search # req[2].search
    /\ expireAfter[1] # expireAfter[2]
    /\ pc[1] = "Completed" /\ pc[2] = "Completed"
    /\ Len(calls[1]) = 3 /\ calls[1] = calls[2]
    /\ response[1].status = 201 /\ response[1] = response[2]

-----------------------------------------------------------------------------
(* Termination *)

\* the four ways a request ends, told apart by what the client gets
Created(r) == response[r].status = 201 /\ error[r] = "none"
RejectedLocally(r) ==
    /\ response[r].status \in ClientInputError
    /\ calls[r] = <<>>
    /\ error[r] = "none"
ForwardedFailure(r) ==
    /\ HasEntry(response[r].headers, "Response-Source")
    /\ response[r].status # 201
    /\ calls[r] # <<>>
    /\ error[r] = "none"
PropagatedError(r) == response[r] = NoResponse /\ error[r] # "none"

Outcomes(r) ==
    {o \in {"created", "rejected", "forwarded", "error"} :
        \/ o = "created" /\ Created(r)
        \/ o = "rejected" /\ RejectedLocally(r)
        \/ o = "forwarded" /\ ForwardedFailure(r)
        \/ o = "error" /\ PropagatedError(r)}

C25_OneOutcome ==
    \A r \in Requests :
        /\ Len(calls[r]) <= 3
        /\ pc[r] \in Terminal => Cardinality(Outcomes(r)) = 1
        /\ pc[r] \notin Terminal => Outcomes(r) = {}

\* an ended request stays as it ended, and a request that awaits a backend
\* call leaves that place only when the call returns or fails: no timeout
C25_NoTimeout ==
    \A r \in Requests :
        /\ pc[r] \in Terminal =>
               /\ pc'[r] = pc[r] /\ response'[r] = response[r]
               /\ error'[r] = error[r] /\ calls'[r] = calls[r]
        /\ (pc[r] \in Awaiting /\ pc'[r] # pc[r]) =>
               Len(returns'[r]) = Len(returns[r]) + 1

\* C25: if every issued backend call returns a response or an error, every
\* request ends, with exactly one of a 201, a local validation error, a
\* forwarded backend failure or a propagated error, after at most three
\* backend calls; a request leaves the wait for a backend call only by the
\* return of that call, so it never ends when the call never returns.
C25_Terminates ==
    /\ \A r \in Requests : (pc[r] = "Start") ~> (pc[r] \in Terminal)
    /\ []C25_OneOutcome
    /\ [][C25_NoTimeout]_vars

C25_Witness ==
    \E r \in Requests :
        /\ pc[r] = "Failed"
        /\ Len(calls[r]) = 3
        /\ Outcomes(r) = {"forwarded"}

=============================================================================
